---- MODULE Spec2Model ----
(***************************************************************************)
(* NeuraSynth backend: the Flask API (auth, users, projects), the           *)
(* IntelligentAutomationEngine and the AdvancedMatchingEngine, as state     *)
(* machines.  The specifications of the module:                             *)
(*   SpecEngine    the automation engine and its blueprint routes           *)
(*   SpecEvents    trigger_event with registered handlers                   *)
(*   SpecLoop      the loop of start_automation_engine, with the clock      *)
(*   SpecStartStop start and stop calls in every order (FairStartStop adds  *)
(*                 the fairness of the event loop)                          *)
(*   SpecHealth    ProjectHealthMonitor.analyze_project_health              *)
(*   SpecAuth      registration, login and the users routes                 *)
(*   SpecProjects  every route behind token_required, with the clock        *)
(*   SpecMatch     the matching engine of advanced_ai_systems_draft.py      *)
(* Numbers that are floats in the code are fixed-point here: ratios and     *)
(* features in per-mille, weights and budget_utilization in percent.        *)
(***************************************************************************)
EXTENDS Integers, Sequences, FiniteSets, TLC

VARIABLES
    \* ---- database tables (src/src/models.py)
    users,              \* rows of table users, in insertion order
    projects,           \* rows of table projects, in insertion order
    matches,            \* rows of table matches, without their surrogate id
    db_rules,           \* ids of the rows of table automation_rules
    \* ---- environment
    now,                \* the wall clock: hours for the API, seconds since Monday
                        \* 00:00 for the engine loop
    issued,             \* the tokens the server has handed out
    \* ---- IntelligentAutomationEngine
    automation_rules,   \* dict id -> AutomationRule, as a sequence in insertion order
    notification_queue, \* list of SmartNotification
    event_handlers,     \* dict event type -> list of handlers
    is_running,         \* the flag the engine loop tests
    engine_tasks,       \* the start_automation_engine coroutines and where each stands
    \* ---- AdvancedMatchingEngine
    feature_weights,    \* dict feature -> weight (percent)
    freelancers_db,     \* draft engine: in-memory freelancers, in insertion order
    trained,            \* what the fitted vectorizer and forest answer per freelancer
    matches_db,         \* draft engine: the stored result per project
    \* ---- observation
    last,               \* the last operation: its inputs and what it returned
    registered,         \* history: user id -> credentials given at registration
    submitted,          \* history: project id -> the name and the client of its creation
    scored              \* history: the first call of calculate_match_score

vars == <<users, projects, matches, db_rules, now, issued, automation_rules,
          notification_queue, feature_weights, freelancers_db, trained, matches_db,
          last, registered, submitted, scored, event_handlers, is_running,
          engine_tasks>>

dbVars     == <<users, projects, matches>>
projVars   == <<projects, matches, submitted>>
apiVars    == <<users, projVars, issued, registered>>
engineVars == <<automation_rules, notification_queue, db_rules>>
matchVars  == <<feature_weights, freelancers_db, trained, matches_db, scored>>
runVars    == <<event_handlers, is_running, engine_tasks>>

\* ------------------------------------------------------------------ values

\* Python's None, and a key that a dict does not hold
None == "<None>"
Absent == "<absent>"

\* a typed Python value: TLC cannot compare a string with a number
S(x) == [t |-> "str", v |-> x]
N(x) == [t |-> "num", v |-> x]
PyEq(a, b) == a.t = b.t /\ a.v = b.v

Max(a, b) == IF a >= b THEN a ELSE b
Min(a, b) == IF a <= b THEN a ELSE b

RECURSIVE SeqSum(_)
SeqSum(s) == IF s = <<>> THEN 0 ELSE Head(s) + SeqSum(Tail(s))

\* Python's None as a typed value
PyNone == [t |-> "none", v |-> 0]
Truthy(x) == (x.t = "str" /\ x.v # "") \/ (x.t = "num" /\ x.v # 0)

\* ================================================================ matching

\* feature values are per-mille, weights percent, scores 1/100000
FeatureOne == 1000
ScoreOne == 100000

DefaultWeights ==
    [skill_similarity |-> 35, experience_match |-> 25, budget_compatibility |-> 20,
     availability_match |-> 10, location_preference |-> 5, success_prediction |-> 5]

\* the features extract_features falls back to when anything in it raises
FallbackFeatures ==
    [skill_similarity |-> 500, experience_match |-> 500, budget_compatibility |-> 500,
     availability_match |-> 500, location_preference |-> 500, success_prediction |-> 500]

\* a vectorizer and a forest that were never fitted: transform/predict raise
Unfitted == [fitted |-> FALSE, skill |-> 0, success |-> 0]

\* str.split(',') of the column values the model uses
SplitCsv(text) ==
    CASE text = "python,react" -> <<"python", "react">>
      [] OTHER -> <<text>>

\* bool(' '.join(list))
JoinTruthy(list) == Len(list) >= 2 \/ (Len(list) = 1 /\ list[1] # "")

\* extract_features(freelancer_data, project_data); fit is what the engine's
\* skill_vectorizer and success_model answer for this pair
ExtractFeatures(f, p, fit) ==
    LET bothSkills == JoinTruthy(f.skills) /\ JoinTruthy(p.required_skills)
        raises ==
            \/ bothSkills /\ ~fit.fitted
            \/ f.experience_years.t # "num" \/ p.complexity_level.t # "num"
            \/ f.hourly_rate.t # "num" \/ p.budget_max.t # "num"
            \/ p.estimated_hours.t # "num"
            \/ f.availability_hours_per_week.t # "num" \/ p.urgency_level.t # "num"
        exp == f.experience_years.v
        required_experience == p.complexity_level.v * 2
        rate == f.hourly_rate.v
        bmax == p.budget_max.v
        hours == p.estimated_hours.v
        avail == f.availability_hours_per_week.v
        required_availability == p.urgency_level.v * 10
    IN  IF raises THEN FallbackFeatures
        ELSE [skill_similarity |-> IF bothSkills THEN fit.skill ELSE 0,
              experience_match |->
                  Min((exp * FeatureOne) \div Max(required_experience, 1), FeatureOne),
              budget_compatibility |->
                  IF rate > 0 /\ bmax > 0 /\ hours > 0
                  THEN Min((bmax * FeatureOne) \div (rate * hours), FeatureOne)
                  ELSE 500,
              availability_match |->
                  Min((avail * FeatureOne) \div Max(required_availability, 1), FeatureOne),
              location_preference |->
                  IF Truthy(f.location) /\ Truthy(p.location)
                  THEN (IF f.location.v = p.location.v THEN FeatureOne ELSE 500)
                  ELSE 700,
              success_prediction |->
                  IF fit.fitted /\ f.completion_rate.t = "num"
                  THEN Max(0, Min(FeatureOne, fit.success))
                  ELSE 700]

RECURSIVE WeightedSum(_, _, _)
WeightedSum(names, features, weights) ==
    IF names = {} THEN 0
    ELSE LET n == CHOOSE x \in names : TRUE
         IN  (IF n \in DOMAIN features THEN features[n] ELSE 0) * weights[n]
             + WeightedSum(names \ {n}, features, weights)

\* calculate_match_score
CalculateMatchScore(f, p, fit, weights) ==
    Max(0, Min(ScoreOne, WeightedSum(DOMAIN weights, ExtractFeatures(f, p, fit), weights)))

\* list.sort(key=match_score, reverse=True): stable
RECURSIVE InsertDesc(_, _)
InsertDesc(sorted, x) ==
    IF sorted = <<>> THEN <<x>>
    ELSE IF Head(sorted).match_score >= x.match_score
         THEN <<Head(sorted)>> \o InsertDesc(Tail(sorted), x)
         ELSE <<x>> \o sorted

\* a sort that leaves the list as it is
SortByScore_Unsorted(done, rest) == done \o rest

RECURSIVE SortByScore(_, _)
SortByScore(done, rest) ==
    IF rest = <<>> THEN done ELSE SortByScore(InsertDesc(done, Head(rest)), Tail(rest))

\* s[:k]
PySlice(s, k) ==
    SubSeq(s, 1, IF k >= 0 THEN Min(k, Len(s)) ELSE Max(Len(s) + k, 0))

\* the default of find_matches_for_project's max_matches, and the [:5] of the route
DefaultMaxMatches == 10
TopMatches == 5

\* no call of calculate_match_score yet
NotScored ==
    [set |-> FALSE, freelancer_id |-> None, project_id |-> None, score |-> 0,
     weights |-> DefaultWeights]

\* ================================================================== engine

MaxExecutions == 1
MaxQueue == 2

\* AutomationTrigger / NotificationPriority values
AutomationTriggers == {"time_based", "event_based", "condition_based",
                       "milestone_based", "budget_based", "deadline_based"}
NotificationPriorities == {"low", "medium", "high", "critical"}

\* conditions helpers: a simple value, or {'operator': .., 'value': ..}
Simple(k, val) == [key |-> k, complex |-> FALSE, operator |-> "equals", value |-> val]
Complex(k, op, val) == [key |-> k, complex |-> TRUE, operator |-> op, value |-> val]

\* conditions = {'schedule': {..}}; a key the schedule lacks is the empty set
Schedule(interval_minutes, specific_time, days_of_week) ==
    [key |-> "schedule", complex |-> TRUE, operator |-> "equals", value |-> PyNone,
     interval_minutes |-> interval_minutes, specific_time |-> specific_time,
     days_of_week |-> days_of_week]
NoSchedule == Schedule({}, {}, {})

\* an action dict; needs = the keys its format templates name, numNeeds = those
\* formatted with a numeric format spec
SendNotification(rcpt, prio, ntype, needs, numNeeds) ==
    [type |-> "send_notification", recipient_id |-> rcpt, priority |-> prio,
     notification_type |-> ntype, needs |-> needs, numNeeds |-> numNeeds]
OtherAction(ty, needs) ==
    [type |-> ty, recipient_id |-> Absent, priority |-> "medium",
     notification_type |-> "general", needs |-> needs, numNeeds |-> {}]

Rule(id, trig, conds, acts) ==
    [id |-> id, trigger_type |-> trig, conditions |-> conds, actions |-> acts,
     is_active |-> TRUE, last_executed |-> {}, execution_count |-> 0]

budget_alert_rule ==
    Rule("budget_alert_80", "event_based",
         << Simple("event_type", S("budget_update")),
            Complex("budget_utilization", "greater_than", N(80)) >>,
         << SendNotification("{project_manager_id}", "high", "budget_alert",
                             {"project_name", "budget_utilization"}, {"budget_utilization"}),
            OtherAction("send_email", {"project_manager_email", "project_name"}) >>)

daily_status_rule ==
    Rule("daily_status_update", "time_based",
         << Schedule({}, {<<9, 0>>}, {0, 1, 2, 3, 4}) >>,
         << SendNotification("all_project_managers", "medium", "status_update", {}, {}) >>)

milestone_reminder_rule ==
    Rule("milestone_deadline_reminder", "time_based",
         << Schedule({1440}, {}, {}) >>,
         << SendNotification("{assignee_id}", "medium", "deadline_reminder",
                             {"milestone_name", "days_remaining"}, {}) >>)

health_critical_rule ==
    Rule("project_health_critical", "event_based",
         << Simple("event_type", S("project_health_critical")) >>,
         << SendNotification("{project_manager_id}", "critical", "health_alert",
                             {"project_id"}, {}),
            OtherAction("escalate_issue", {}) >>)

DefaultRules == <<budget_alert_rule, daily_status_rule, milestone_reminder_rule,
                  health_critical_rule>>

\* the rule of tests/test_automation.py, as an AutomationRule object
test_rule ==
    Rule("test_rule_1", "event_based",
         << Simple("event_type", S("project_created")) >>,
         << SendNotification("admin", "medium", "general", {}, {}) >>)

\* a rule without conditions, constructed with is_active=False
paused_rule ==
    [Rule("paused_rule", "event_based", <<>>,
          << SendNotification("admin", "low", "general", {}, {}) >>)
        EXCEPT !.is_active = FALSE]

\* a rule whose conditions name only a data key of the event
threshold_rule ==
    Rule("budget_threshold", "event_based",
         << Complex("budget_utilization", "greater_than", N(80)) >>,
         << SendNotification("finance", "high", "budget_alert",
                             {"project_name"}, {}),
            OtherAction("budget_alert", {}) >>)

\* the event data of main(), with budget_utilization u (percent)
BudgetEventData(u) ==
    [project_id |-> S("proj_001"), project_name |-> S("AI Chatbot Development"),
     project_manager_id |-> S("user_001"),
     project_manager_email |-> S("manager@example.com"),
     budget_utilization |-> N(u), current_spend |-> N(42500),
     total_budget |-> N(50000)]

ProjectCreatedData(pid, cid) == [project_id |-> S(pid), client_id |-> S(cid)]

\* ---- dict helpers over the sequence of rules
RuleIds(rules) == {rules[i].id : i \in DOMAIN rules}
RuleIndex(rules, id) == CHOOSE i \in DOMAIN rules : rules[i].id = id
RuleOf(rules, id) == rules[RuleIndex(rules, id)]

\* self.automation_rules[rule.id] = rule
DictPut(rules, rule) ==
    IF rule.id \in RuleIds(rules)
    THEN [rules EXCEPT ![RuleIndex(rules, rule.id)] = rule]
    ELSE Append(rules, rule)

\* del self.automation_rules[rule_id]
DictDel(rules, id) ==
    LET i == RuleIndex(rules, id)
    IN  [j \in 1..(Len(rules) - 1) |-> IF j < i THEN rules[j] ELSE rules[j + 1]]

\* add_automation_rule: rule.id raises AttributeError on a dict, caught, False
AddAutomationRule(rules, rule, isObject) ==
    IF isObject
    THEN [ok |-> TRUE, rules |-> DictPut(rules, rule)]
    ELSE [ok |-> FALSE, rules |-> rules]

RemoveAutomationRule(rules, id) ==
    IF id \in RuleIds(rules)
    THEN [ok |-> TRUE, rules |-> DictDel(rules, id)]
    ELSE [ok |-> FALSE, rules |-> rules]

\* one entry of conditions against context_data; an exception (a comparison of
\* a str with a number) makes _evaluate_conditions return False
ConditionHolds(c, ctx) ==
    IF c.key \notin DOMAIN ctx THEN FALSE
    ELSE LET actual == ctx[c.key] IN
         IF c.complex
         THEN CASE c.operator = "equals" -> PyEq(actual, c.value)
                [] c.operator = "greater_than" ->
                      actual.t = "num" /\ c.value.t = "num" /\ actual.v > c.value.v
                [] c.operator = "less_than" ->
                      actual.t = "num" /\ c.value.t = "num" /\ actual.v < c.value.v
                [] OTHER -> TRUE
         ELSE PyEq(actual, c.value)

EvaluateConditions(conditions, ctx) ==
    \A i \in DOMAIN conditions : ConditionHolds(conditions[i], ctx)

CtxNum(ctx, k) == IF k \in DOMAIN ctx /\ ctx[k].t = "num" THEN ctx[k].v ELSE 0

\* the notifications one action appends; an exception in the action (a template
\* key the context lacks, a bad priority) is caught and the action appends nothing
ActionNotifications(a, ctx) ==
    CASE a.type = "send_notification" ->
             IF /\ a.needs \subseteq DOMAIN ctx
                /\ \A k \in a.numNeeds : ctx[k].t = "num"
                /\ a.priority \in NotificationPriorities
             THEN << [recipient_id |-> a.recipient_id, priority |-> a.priority,
                      notification_type |-> a.notification_type,
                      scheduled_for |-> {}] >>
             ELSE <<>>
      [] a.type = "budget_alert" ->
             LET spend == CtxNum(ctx, "current_spend")
                 limit == CtxNum(ctx, "budget_limit")
                 utilization == IF limit > 0 THEN (spend * 100) \div limit ELSE 0
             IN  IF utilization >= 80
                 THEN << [recipient_id |-> Absent, priority |-> "high",
                          notification_type |-> "budget_alert",
                          scheduled_for |-> {}] >>
                 ELSE <<>>
      [] OTHER -> <<>>

\* the action raises in this context: str.format lacks a key or meets a numeric
\* format on a str, NotificationPriority(..) is given no priority
ActionRaises(a, ctx) ==
    CASE a.type = "send_notification" ->
             ~ ( /\ a.needs \subseteq DOMAIN ctx
                 /\ \A k \in a.numNeeds : ctx[k].t = "num"
                 /\ a.priority \in NotificationPriorities )
      [] a.type = "budget_alert" -> FALSE
      [] OTHER -> ~ (a.needs \subseteq DOMAIN ctx)

RECURSIVE ExecuteRuleActions(_, _, _)
ExecuteRuleActions(actions, ctx, queue) ==
    IF actions = <<>> THEN queue
    ELSE ExecuteRuleActions(Tail(actions), ctx, queue \o ActionNotifications(Head(actions), ctx))

\* _check_event_based_rules without the test of rule.is_active
RECURSIVE CheckEventBasedRules_Inactive(_, _, _, _, _)
CheckEventBasedRules_Inactive(rules, queue, i, ctx, t) ==
    IF i > Len(rules) THEN [rules |-> rules, queue |-> queue]
    ELSE LET r == rules[i] IN
         IF r.trigger_type = "event_based" /\ EvaluateConditions(r.conditions, ctx)
         THEN CheckEventBasedRules_Inactive(
                  [rules EXCEPT ![i].last_executed = {t},
                                ![i].execution_count = @ + 1],
                  ExecuteRuleActions(r.actions, ctx, queue), i + 1, ctx, t)
         ELSE CheckEventBasedRules_Inactive(rules, queue, i + 1, ctx, t)

\* _check_event_based_rules, over the rules from index i on
RECURSIVE CheckEventBasedRules(_, _, _, _, _)
CheckEventBasedRules(rules, queue, i, ctx, t) ==
    IF i > Len(rules) THEN [rules |-> rules, queue |-> queue]
    ELSE LET r == rules[i] IN
         IF ~r.is_active \/ r.trigger_type # "event_based"
         THEN CheckEventBasedRules(rules, queue, i + 1, ctx, t)
         ELSE IF EvaluateConditions(r.conditions, ctx)
              THEN CheckEventBasedRules(
                       [rules EXCEPT ![i].last_executed = {t},
                                     ![i].execution_count = @ + 1],
                       ExecuteRuleActions(r.actions, ctx, queue), i + 1, ctx, t)
              ELSE CheckEventBasedRules(rules, queue, i + 1, ctx, t)

\* trigger_event: no handler is registered in the model; the event type is not
\* part of the context the rules are evaluated against
TriggerEvent(rules, queue, event_type, event_data, t) ==
    CheckEventBasedRules(rules, queue, 1, event_data, t)

GetAutomationStatistics(rules, queue) ==
    [total_rules |-> Len(rules),
     active_rules |-> Cardinality({i \in DOMAIN rules : rules[i].is_active}),
     total_executions |-> SeqSum([i \in DOMAIN rules |-> rules[i].execution_count]),
     pending_notifications |-> Len(queue)]


\* _process_notification_queue holding back what is scheduled for this very time
ProcessNotificationQueue_Strict(queue, t) ==
    SelectSeq(queue, LAMBDA n : n.scheduled_for # {} /\ \E d \in n.scheduled_for : d >= t)

\* _process_notification_queue: what stays queued at time t
ProcessNotificationQueue(queue, t) ==
    SelectSeq(queue, LAMBDA n : n.scheduled_for # {} /\ \E d \in n.scheduled_for : d > t)

\* ---- event handlers (register_event_handler)

\* a handler is a callable: the model knows its name and whether it raises
Handler(name, raises) == [name |-> name, raises |-> raises]
audit_handler == Handler("audit", FALSE)
failing_handler == Handler("failing", TRUE)
Handlers == {audit_handler, failing_handler}

EventTypes == {"budget_update", "project_created", "project_health_critical"}

\* self.event_handlers = {}: no event type has a handler
NoHandlers == [ty \in EventTypes |-> <<>>]

\* register_event_handler: append to the list of the event type
RegisterEventHandler(handlers, event_type, handler) ==
    [handlers EXCEPT ![event_type] = Append(@, handler)]

\* the handler loop of trigger_event, stopping at the first handler that raises
RECURSIVE RunHandlers_Abort(_)
RunHandlers_Abort(hs) ==
    IF hs = <<>> THEN <<>>
    ELSE IF Head(hs).raises THEN << Head(hs).name >>
         ELSE << Head(hs).name >> \o RunHandlers_Abort(Tail(hs))

\* the handler loop of trigger_event: the names of the handlers it calls; each
\* call is in a try of its own, so a handler that raises does not end the loop
RECURSIVE RunHandlers(_)
RunHandlers(hs) ==
    IF hs = <<>> THEN <<>>
    ELSE << Head(hs).name >> \o RunHandlers(Tail(hs))

\* ---- the engine loop (start_automation_engine)

\* the start_automation_engine coroutines the model follows
EngineTasks == {1, 2}

\* a coroutine is "none" (not created), "created" (scheduled, its body has not
\* begun), "sleeping" (between two passes, in asyncio.sleep) or "done" (the
\* loop has exited); wake is the time its sleep ends, since the time it began
NoTask == [pc |-> "none", wake |-> 0, since |-> 0]
NoTasks == [k \in EngineTasks |-> NoTask]
Looping(tasks) == {k \in EngineTasks : tasks[k].pc = "sleeping"}

\* 'running' if self.is_running else 'stopped'
EngineStatus(running) == IF running THEN "running" ELSE "stopped"

\* datetime arithmetic on seconds since Monday 00:00:00
SecondsPerDay == 24 * 3600
At(weekday, hour, minute, second) ==
    weekday * SecondsPerDay + hour * 3600 + minute * 60 + second
Weekday(t) == (t \div SecondsPerDay) % 7
Hour(t) == (t % SecondsPerDay) \div 3600
Minute(t) == (t % 3600) \div 60
Datetime(t) == [t |-> "datetime", v |-> t]

\* await asyncio.sleep(60)
SleepSeconds == 60

\* rule.conditions.get('schedule', {})
ScheduleOf(conditions) ==
    IF \E i \in DOMAIN conditions : conditions[i].key = "schedule"
    THEN conditions[CHOOSE i \in DOMAIN conditions : conditions[i].key = "schedule"]
    ELSE NoSchedule

\* _should_execute_time_based_rule
ShouldExecuteTimeBasedRule(rule, current_time, schedule) ==
    IF schedule.days_of_week # {} /\ Weekday(current_time) \notin schedule.days_of_week
    THEN FALSE
    ELSE IF /\ schedule.specific_time # {}
            /\ \E target \in schedule.specific_time :
                   Hour(current_time) # target[1] \/ Minute(current_time) # target[2]
    THEN FALSE
    ELSE IF /\ schedule.interval_minutes # {} /\ schedule.interval_minutes # {0}
            /\ rule.last_executed # {}
            /\ \E m \in schedule.interval_minutes : \E l \in rule.last_executed :
                   current_time - l < m * 60
    THEN FALSE
    ELSE TRUE

\* _check_time_based_rules at current_time t, over the rules from index i on
RECURSIVE CheckTimeBasedRules(_, _, _, _)
CheckTimeBasedRules(rules, queue, i, t) ==
    IF i > Len(rules) THEN [rules |-> rules, queue |-> queue]
    ELSE LET r == rules[i] IN
         IF ~r.is_active \/ r.trigger_type # "time_based"
         THEN CheckTimeBasedRules(rules, queue, i + 1, t)
         ELSE IF ShouldExecuteTimeBasedRule(r, t, ScheduleOf(r.conditions))
              THEN CheckTimeBasedRules(
                       [rules EXCEPT ![i].last_executed = {t},
                                     ![i].execution_count = @ + 1],
                       ExecuteRuleActions(r.actions, [current_time |-> Datetime(t)], queue),
                       i + 1, t)
              ELSE CheckTimeBasedRules(rules, queue, i + 1, t)

\* the notifications _process_notification_queue delivers at time t
DueNotifications(queue, t) ==
    SelectSeq(queue, LAMBDA n : ~(n.scheduled_for # {} /\ \E d \in n.scheduled_for : d > t))

\* one pass of the loop body at time t: the time-based rules, the (empty)
\* condition-based check, the notification queue
EnginePass(rules, queue, t) ==
    LET checked == CheckTimeBasedRules(rules, queue, 1, t) IN
    [rules |-> checked.rules,
     queue |-> ProcessNotificationQueue(checked.queue, t),
     delivered |-> DueNotifications(checked.queue, t)]

\* ---- the engine's operations as steps

\* the events the model triggers: the example of main() at two utilizations, the
\* same data with an event_type key of its own, a project creation, a health alarm,
\* a project creation whose data names another event type, and a budget update
\* with the figures of _budget_alert_action but no project name
Events ==
    { [type |-> "budget_update", data |-> BudgetEventData(85)],
      [type |-> "budget_update", data |-> BudgetEventData(75)],
      [type |-> "budget_update",
       data |-> [event_type |-> S("budget_update")] @@ BudgetEventData(85)],
      [type |-> "project_created", data |-> ProjectCreatedData("p1", "u1")],
      [type |-> "project_health_critical",
       data |-> [project_id |-> S("proj_001"), health_score |-> N(15)]],
      [type |-> "project_created",
       data |-> [event_type |-> S("budget_update")] @@ BudgetEventData(85)],
      [type |-> "budget_update",
       data |-> [budget_utilization |-> N(85), current_spend |-> N(900),
                 budget_limit |-> N(1000)]] }

\* the AutomationRule objects a caller adds in-process
ExtraRules == {test_rule, threshold_rule}
AllRuleIds == {DefaultRules[i].id : i \in DOMAIN DefaultRules} \cup {r.id : r \in ExtraRules}

\* the rule ids DELETE /automation/rules/<rule_id> is called with
DeletedIds == {"test_rule_1", "budget_alert_80"}

\* the JSON bodies of POST /automation/rules: the rule of the test, and an empty body
RuleBodies == {[empty |-> FALSE, rule |-> test_rule], [empty |-> TRUE, rule |-> test_rule]}

RECURSIVE AddAll(_, _)
AddAll(rules, new) ==
    IF new = <<>> THEN rules
    ELSE AddAll(AddAutomationRule(rules, Head(new), TRUE).rules, Tail(new))

setup_default_automation_rules ==
    /\ automation_rules' = AddAll(automation_rules, DefaultRules)
    /\ last' = [op |-> "setup_default_automation_rules"]
    /\ UNCHANGED <<runVars, notification_queue, db_rules, now, apiVars, matchVars>>

engine_add_automation_rule ==
    \E r \in ExtraRules :
        LET res == AddAutomationRule(automation_rules, r, TRUE) IN
        /\ automation_rules' = res.rules
        /\ last' = [op |-> "add_automation_rule", rule_id |-> r.id, ok |-> res.ok]
        /\ UNCHANGED <<runVars, notification_queue, db_rules, now, apiVars, matchVars>>

trigger_event ==
    \E e \in Events :
        LET res == TriggerEvent(automation_rules, notification_queue, e.type, e.data, now) IN
        /\ Len(res.queue) <= MaxQueue
        /\ \A i \in DOMAIN res.rules : res.rules[i].execution_count <= MaxExecutions
        /\ automation_rules' = res.rules
        /\ notification_queue' = res.queue
        /\ last' = [op |-> "trigger_event", event_type |-> e.type, event_data |-> e.data,
                    handlers_run |-> RunHandlers(event_handlers[e.type])]
        /\ UNCHANGED <<runVars, db_rules, now, apiVars, matchVars>>

MaxHandlers == 2

\* the event types callers register handlers for
HandledTypes == {"budget_update", "project_created"}

register_event_handler ==
    \E ty \in HandledTypes : \E h \in Handlers :
        /\ Len(event_handlers[ty]) < MaxHandlers
        /\ event_handlers' = RegisterEventHandler(event_handlers, ty, h)
        /\ last' = [op |-> "register_event_handler", event_type |-> ty, handler |-> h.name]
        /\ UNCHANGED <<is_running, engine_tasks, engineVars, now, apiVars, matchVars>>

process_notification_queue ==
    /\ notification_queue # <<>>
    /\ notification_queue' = ProcessNotificationQueue(notification_queue, now)
    /\ last' = [op |-> "_process_notification_queue"]
    /\ UNCHANGED <<runVars, automation_rules, db_rules, now, apiVars, matchVars>>

\* ---- automation_blueprint.py

\* POST /automation/rules
route_add_automation_rule ==
    \E body \in RuleBodies :
        LET res == AddAutomationRule(automation_rules, body.rule, FALSE) IN
        /\ automation_rules' = IF body.empty THEN automation_rules ELSE res.rules
        /\ last' = [op |-> "POST /automation/rules",
                    rule_id |-> IF body.empty THEN None ELSE body.rule.id,
                    status |-> IF body.empty THEN 400
                               ELSE IF res.ok THEN 201 ELSE 500]
        /\ UNCHANGED <<runVars, notification_queue, db_rules, now, apiVars, matchVars>>

\* DELETE /automation/rules/<rule_id>
route_remove_automation_rule ==
    \E id \in DeletedIds :
        LET res == RemoveAutomationRule(automation_rules, id) IN
        /\ automation_rules' = res.rules
        /\ last' = [op |-> "DELETE /automation/rules", rule_id |-> id,
                    status |-> IF res.ok THEN 200 ELSE 500]
        /\ UNCHANGED <<runVars, notification_queue, db_rules, now, apiVars, matchVars>>

\* GET /automation/stats
route_get_automation_stats ==
    /\ last' = [op |-> "GET /automation/stats", status |-> 200,
                stats |-> GetAutomationStatistics(automation_rules, notification_queue)]
    /\ UNCHANGED <<runVars, engineVars, now, apiVars, matchVars>>

\* the set-up of test_remove_automation_rule: a row of table automation_rules
test_insert_rule_row ==
    /\ test_rule.id \notin db_rules
    /\ db_rules' = db_rules \cup {test_rule.id}
    /\ last' = [op |-> "db.session.add(AutomationRule)", rule_id |-> test_rule.id]
    /\ UNCHANGED <<runVars, automation_rules, notification_queue, now, apiVars, matchVars>>

InitEngine ==
    /\ users = <<>> /\ projects = <<>> /\ matches = {} /\ db_rules = {}
    /\ now = 0 /\ issued = {}
    /\ automation_rules = <<>> /\ notification_queue = <<>>
    /\ event_handlers = NoHandlers /\ is_running = FALSE /\ engine_tasks = NoTasks
    /\ feature_weights = DefaultWeights
    /\ freelancers_db = <<>> /\ trained = <<>> /\ matches_db = <<>>
    /\ scored = NotScored
    /\ last = [op |-> "init"]
    /\ registered = <<>> /\ submitted = <<>>

NextEngine ==
    \/ setup_default_automation_rules
    \/ engine_add_automation_rule
    \/ trigger_event
    \/ process_notification_queue
    \/ route_add_automation_rule
    \/ route_remove_automation_rule
    \/ route_get_automation_stats
    \/ test_insert_rule_row

SpecEngine == InitEngine /\ [][NextEngine]_vars

\* events and their handlers, on the engine of main() with the rules callers added
InitEvents ==
    /\ users = <<>> /\ projects = <<>> /\ matches = {} /\ db_rules = {}
    /\ now = 0 /\ issued = {}
    /\ automation_rules
           = AddAll(<<>>, DefaultRules \o << test_rule, threshold_rule, paused_rule >>)
    /\ notification_queue = <<>>
    /\ event_handlers = NoHandlers /\ is_running = FALSE /\ engine_tasks = NoTasks
    /\ feature_weights = DefaultWeights
    /\ freelancers_db = <<>> /\ trained = <<>> /\ matches_db = <<>>
    /\ scored = NotScored
    /\ last = [op |-> "add_automation_rule"]
    /\ registered = <<>> /\ submitted = <<>>

NextEvents ==
    \/ register_event_handler
    \/ trigger_event

SpecEvents == InitEvents /\ [][NextEvents]_vars


\* ------------------------------------------------------------ claims C6-C8

HasRule(rules, id) == id \in RuleIds(rules)
ExecutionCount(rules, id) == RuleOf(rules, id).execution_count

\* C6: with the default rules set up, trigger_event('budget_update', data) with the
\* data of main() and a budget_utilization above 0.8 executes budget_alert_80: a
\* budget-alert notification joins the queue and execution_count grows by one.
C6_BudgetUpdateExecutesRule ==
    [][ ( /\ last'.op = "trigger_event"
          /\ last'.event_type = "budget_update"
          /\ \E u \in {75, 85} : u > 80 /\ last'.event_data = BudgetEventData(u)
          /\ HasRule(automation_rules, "budget_alert_80") )
        => ( /\ HasRule(automation_rules', "budget_alert_80")
             /\ ExecutionCount(automation_rules', "budget_alert_80")
                    = ExecutionCount(automation_rules, "budget_alert_80") + 1
             /\ \E i \in DOMAIN notification_queue' :
                    /\ i > Len(notification_queue)
                    /\ notification_queue'[i].notification_type = "budget_alert"
                    /\ notification_queue'[i].recipient_id = "{project_manager_id}" )
      ]_vars

\* C7: POST /automation/rules with a JSON rule answers 201 and registers the rule,
\* so that total_rules of the statistics counts it.
C7_PostRuleRegisters ==
    [][ ( /\ last'.op = "POST /automation/rules"
          /\ last'.rule_id # None )
        => ( /\ last'.status = 201
             /\ HasRule(automation_rules', last'.rule_id)
             /\ GetAutomationStatistics(automation_rules', notification_queue').total_rules
                    = Cardinality(RuleIds(automation_rules) \cup {last'.rule_id}) )
      ]_vars

\* C8: DELETE /automation/rules/<rule_id> for a rule that exists (as a row of table
\* automation_rules, as in the test, or in the engine) answers 200 and the rule is
\* not registered afterwards.
C8_DeleteExistingRule ==
    [][ ( /\ last'.op = "DELETE /automation/rules"
          /\ (last'.rule_id \in db_rules \/ HasRule(automation_rules, last'.rule_id)) )
        => ( /\ last'.status = 200
             /\ ~HasRule(automation_rules', last'.rule_id) )
      ]_vars


\* ===================================================================== API

SECRET_KEY == "a-very-secret-key"
TokenTTL == 24
MinPasswordLength == 8

MaxUsers == 2
MaxProjects == 1
MaxTime == 24
ClockStep == 24

IdPool == <<"u1", "u2", "u3", "u4">>
UserIds == {IdPool[i] : i \in 1..MaxUsers}
ProjectPool == <<"p1", "p2", "p3", "p4">>
ProjectIds == {ProjectPool[i] : i \in 1..MaxProjects}

\* ---- request inputs
Emails == {"a@x.io", "b@x.io", "nobody"}
EmailChars(e) ==
    CASE e = "a@x.io" -> <<"a", "@", "x", ".", "i", "o">>
      [] e = "b@x.io" -> <<"b", "@", "x", ".", "i", "o">>
      [] e = "nobody" -> <<"n", "o", "b", "o", "d", "y">>
      [] OTHER -> <<>>
Contains(chars, c) == \E i \in DOMAIN chars : chars[i] = c

Passwords == {"password", "hunter22", "short"}
UserTypes == {"freelancer", "client", "guest"}
valid_user_types == {"freelancer", "client", "merchant", "admin"}

\* werkzeug's generate_password_hash / check_password_hash
GeneratePasswordHash(password) == [alg |-> "pbkdf2", of |-> password]
CheckPasswordHash(hash, password) == hash = GeneratePasswordHash(password)
\* a value that is no hash of any password
RawHash == [alg |-> "none", of |-> "password"]

\* ---- tables
UserIdsOf(usrs) == {usrs[i].id : i \in DOMAIN usrs}
ProjectIdsOf(projs) == {projs[i].id : i \in DOMAIN projs}

\* the unique constraint on users.email: commit raises IntegrityError otherwise
EmailUnique(usrs) ==
    \A i, j \in DOMAIN usrs : usrs[i].email = usrs[j].email => i = j

\* User.query.filter_by(email=email).first() / User.query.get(user_id)
HasEmail(usrs, email) == \E i \in DOMAIN usrs : usrs[i].email = email
UserByEmail(usrs, email) ==
    usrs[CHOOSE i \in DOMAIN usrs :
            usrs[i].email = email /\ \A j \in 1..(i - 1) : usrs[j].email # email]
UserIndex(usrs, id) == CHOOSE i \in DOMAIN usrs : usrs[i].id = id
ProjectById(projs, id) == projs[CHOOSE i \in DOMAIN projs : projs[i].id = id]

\* str(uuid.uuid4()): an id no row has yet
NextUserId(usrs) == IdPool[Len(usrs) + 1]

\* ---- AuthManager

\* register_user without its lookup of the email: the unique constraint of the
\* table is then all that stands against a second account
register_user_NoLookup(usrs, email, password, user_type, newId) ==
    IF ~Contains(EmailChars(email), "@") \/ ~Contains(EmailChars(email), ".")
    THEN [success |-> FALSE, message |-> "Invalid email format",
          users |-> usrs, user_id |-> None]
    ELSE IF Len(password) < MinPasswordLength
    THEN [success |-> FALSE, message |-> "Password must be at least 8 characters long",
          users |-> usrs, user_id |-> None]
    ELSE IF user_type \notin valid_user_types
    THEN [success |-> FALSE, message |-> "Invalid user type. Must be one of: ['freelancer', 'client', 'merchant', 'admin']",
          users |-> usrs, user_id |-> None]
    ELSE LET row == [id |-> newId, email |-> email,
                     password_hash |-> GeneratePasswordHash(password),
                     user_type |-> user_type, skills |-> PyNone]
             table == Append(usrs, row)
         IN  IF EmailUnique(table)
             THEN [success |-> TRUE, message |-> "User registered successfully",
                   users |-> table, user_id |-> newId]
             ELSE [success |-> FALSE, message |-> "Registration failed: IntegrityError",
                   users |-> usrs, user_id |-> None]

register_user(usrs, email, password, user_type, newId) ==
    IF HasEmail(usrs, email)
    THEN [success |-> FALSE, message |-> "User with this email already exists",
          users |-> usrs, user_id |-> None]
    ELSE IF ~Contains(EmailChars(email), "@") \/ ~Contains(EmailChars(email), ".")
    THEN [success |-> FALSE, message |-> "Invalid email format",
          users |-> usrs, user_id |-> None]
    ELSE IF Len(password) < MinPasswordLength
    THEN [success |-> FALSE, message |-> "Password must be at least 8 characters long",
          users |-> usrs, user_id |-> None]
    ELSE IF user_type \notin valid_user_types
    THEN [success |-> FALSE, message |-> "Invalid user type. Must be one of: ['freelancer', 'client', 'merchant', 'admin']",
          users |-> usrs, user_id |-> None]
    ELSE LET row == [id |-> newId, email |-> email,
                     password_hash |-> GeneratePasswordHash(password),
                     user_type |-> user_type, skills |-> PyNone]
             table == Append(usrs, row)
         IN  IF EmailUnique(table)
             THEN [success |-> TRUE, message |-> "User registered successfully",
                   users |-> table, user_id |-> newId]
             ELSE [success |-> FALSE, message |-> "Registration failed: IntegrityError",
                   users |-> usrs, user_id |-> None]

\* authenticate_user that answers with the first account of the table
authenticate_user_FirstRow(usrs, email, password) ==
    IF ~HasEmail(usrs, email)
       \/ ~CheckPasswordHash(UserByEmail(usrs, email).password_hash, password)
    THEN [success |-> FALSE, message |-> "Invalid email or password", user_id |-> None]
    ELSE [success |-> TRUE, message |-> "Authentication successful",
          user_id |-> usrs[1].id]

authenticate_user(usrs, email, password) ==
    IF ~HasEmail(usrs, email)
       \/ ~CheckPasswordHash(UserByEmail(usrs, email).password_hash, password)
    THEN [success |-> FALSE, message |-> "Invalid email or password", user_id |-> None]
    ELSE [success |-> TRUE, message |-> "Authentication successful",
          user_id |-> UserByEmail(usrs, email).id]

\* jwt.encode({'user_id': .., 'exp': utcnow() + 24h}, SECRET_KEY)
NewToken(user_id, t) == [user_id |-> user_id, exp |-> t + TokenTTL, key |-> SECRET_KEY]
NoToken == [user_id |-> None, exp |-> 0, key |-> None]

\* ---- token_required

\* jwt.decode with verify_exp off
JwtDecode_NoExpiry(token, secret, t) ==
    IF token.key # secret THEN "InvalidTokenError" ELSE "ok"

\* jwt.decode: the signature first, then exp
JwtDecode(token, secret, t) ==
    IF token.key # secret THEN "InvalidTokenError"
    ELSE IF token.exp <= t THEN "ExpiredSignatureError"
    ELSE "ok"

token_required(header, t) ==
    IF header.kind \in {"none", "empty"}
    THEN [ok |-> FALSE, status |-> 401, error |-> "Token is missing", user_id |-> None]
    ELSE IF header.kind = "garbage"
    THEN [ok |-> FALSE, status |-> 401, error |-> "Token is invalid", user_id |-> None]
    ELSE LET d == JwtDecode(header.token, SECRET_KEY, t) IN
         IF d = "ExpiredSignatureError"
         THEN [ok |-> FALSE, status |-> 401, error |-> "Token has expired", user_id |-> None]
         ELSE IF d = "InvalidTokenError"
         THEN [ok |-> FALSE, status |-> 401, error |-> "Token is invalid", user_id |-> None]
         ELSE [ok |-> TRUE, status |-> 200, error |-> None,
               user_id |-> header.token.user_id]

\* the Authorization headers a client can send: none, an empty one, text that is
\* no JWT, a token the server issued (with or without 'Bearer '), or a token for
\* an existing user signed with another key
Headers ==
    {[kind |-> k, token |-> NoToken] : k \in {"none", "empty", "garbage"}}
    \cup {[kind |-> "jwt", token |-> tk] : tk \in issued}
    \cup {[kind |-> "jwt",
           token |-> [user_id |-> IdPool[1], exp |-> now + TokenTTL, key |-> "attacker-key"]]}

\* what a request's header is, in the words of the claims
HeaderClass(header, t) ==
    CASE header.kind \in {"none", "empty"} -> "missing"
      [] header.kind = "garbage" -> "unverifiable"
      [] header.token.key # SECRET_KEY -> "unverifiable"
      [] header.token.exp <= t -> "expired"
      [] OTHER -> "valid"

\* the response of a protected route that token_required turned away
Rejected(op, header, auth) ==
    [op |-> op, auth |-> HeaderClass(header, now), ran |-> FALSE,
     status |-> auth.status, error |-> auth.error]

\* ---- auth.py routes

AtMostOneAbsent(body) ==
    Cardinality({k \in DOMAIN body : body[k] = Absent}) <= 1

\* the JSON bodies of POST /auth/register: a well-formed one per email, and the
\* ones with one field missing or invalid
RegisterBodies ==
    {[email |-> e, password |-> "password", user_type |-> "client"] :
        e \in Emails \cup {Absent}}
    \cup {[email |-> "a@x.io", password |-> p, user_type |-> "client"] :
            p \in {"short", Absent}}
    \cup {[email |-> "a@x.io", password |-> "password", user_type |-> t] :
            t \in UserTypes \cup {Absent}}

LoginBodies ==
    {b \in [email : Emails \cup {Absent}, password : Passwords \cup {Absent}] :
        AtMostOneAbsent(b)}

\* POST /auth/register
register ==
    \E body \in RegisterBodies :
        LET newId == NextUserId(users)
            missing == Absent \in {body.email, body.password, body.user_type}
            result == register_user(users, body.email, body.password,
                                    body.user_type, newId)
            created == ~missing /\ result.success
        IN  /\ created => Len(users) < MaxUsers
            /\ users' = IF created THEN result.users ELSE users
            /\ issued' = IF created THEN issued \cup {NewToken(newId, now)} ELSE issued
            /\ registered' =
                   IF created
                   THEN (newId :> [email |-> body.email, password |-> body.password])
                        @@ registered
                   ELSE registered
            /\ last' = [op |-> "POST /auth/register", called |-> ~missing,
                        email |-> body.email, password |-> body.password,
                        status |-> IF created THEN 201 ELSE 400,
                        error |-> IF missing THEN "Missing required field"
                                  ELSE IF created THEN None ELSE result.message,
                        user_id |-> IF created THEN newId ELSE None,
                        token |-> IF created THEN NewToken(newId, now) ELSE NoToken]
            /\ UNCHANGED <<runVars, projVars, now, engineVars, matchVars>>

\* POST /auth/login
login ==
    \E body \in LoginBodies :
        LET bad == body.email \in {Absent, ""} \/ body.password \in {Absent, ""}
            result == authenticate_user(users, body.email, body.password)
            ok == ~bad /\ result.success
        IN  /\ issued' = IF ok THEN issued \cup {NewToken(result.user_id, now)} ELSE issued
            /\ last' = [op |-> "POST /auth/login",
                        email |-> body.email, password |-> body.password,
                        status |-> IF bad THEN 400 ELSE IF ok THEN 200 ELSE 401,
                        error |-> IF bad THEN "Email and password are required"
                                  ELSE IF ok THEN None ELSE result.message,
                        user_id |-> IF ok THEN result.user_id ELSE None,
                        token |-> IF ok THEN NewToken(result.user_id, now) ELSE NoToken]
            /\ UNCHANGED <<runVars, users, projVars, registered, now, engineVars, matchVars>>

\* ---- users/routes.py, user.py

\* hasattr(user, key) and key != 'id': the columns of the row; the password
\* property raises AttributeError on reading, so hasattr is False for it
Settable(row, key) == key \in DOMAIN row /\ key # "id"

\* the JSON bodies of PUT /users/<user_id>/profile
ProfileBodies ==
    { [email |-> "b@x.io"], [password_hash |-> RawHash], [skills |-> S("python")],
      [id |-> "u2"], [password |-> "hunter22"] }

\* UserManager.update_user_profile; raised = db.session.commit() raised
UserManager_update_user_profile(usrs, user_id, data) ==
    IF user_id \notin UserIdsOf(usrs)
    THEN [success |-> FALSE, raised |-> FALSE, users |-> usrs]
    ELSE LET i == UserIndex(usrs, user_id)
             row == [k \in DOMAIN usrs[i] |->
                        IF k \in DOMAIN data /\ Settable(usrs[i], k)
                        THEN data[k] ELSE usrs[i][k]]
             table == [usrs EXCEPT ![i] = row]
         IN  IF EmailUnique(table)
             THEN [success |-> TRUE, raised |-> FALSE, users |-> table]
             ELSE [success |-> FALSE, raised |-> TRUE, users |-> usrs]

\* the handler without its comparison of the two ids
UpdateUserProfileHandler_NoOwner(usrs, current_user_id, user_id, data) ==
    LET result == UserManager_update_user_profile(usrs, user_id, data) IN
    IF result.raised THEN [status |-> 500, users |-> usrs]
    ELSE IF result.success THEN [status |-> 200, users |-> result.users]
    ELSE [status |-> 400, users |-> usrs]

\* the handler of PUT /users/<user_id>/profile, behind token_required
UpdateUserProfileHandler(usrs, current_user_id, user_id, data) ==
    IF current_user_id # user_id
    THEN [status |-> 403, users |-> usrs]
    ELSE LET result == UserManager_update_user_profile(usrs, user_id, data) IN
         IF result.raised THEN [status |-> 500, users |-> usrs]
         ELSE IF result.success THEN [status |-> 200, users |-> result.users]
         ELSE [status |-> 400, users |-> usrs]

\* a body that sets a column no login depends on
SkillsBodies == { [skills |-> S("python")] }

\* PUT /users/<user_id>/profile with a body of the set
PutUserProfile(bodies) ==
    \E header \in Headers, user_id \in UserIds, data \in bodies :
        LET auth == token_required(header, now)
            res == UpdateUserProfileHandler(users, auth.user_id, user_id, data)
        IN  /\ users' = IF auth.ok THEN res.users ELSE users
            /\ last' = IF auth.ok
                       THEN [op |-> "PUT /users/profile", auth |-> HeaderClass(header, now),
                             ran |-> TRUE, status |-> res.status, error |-> None,
                             current_user_id |-> auth.user_id, user_id |-> user_id]
                       ELSE Rejected("PUT /users/profile", header, auth)
            /\ UNCHANGED <<runVars, projVars, issued, registered, now, engineVars, matchVars>>

update_user_profile == PutUserProfile(ProfileBodies)
update_user_skills == PutUserProfile(SkillsBodies)

\* GET /users/<user_id>
get_user ==
    \E header \in Headers, user_id \in UserIds :
        LET auth == token_required(header, now) IN
        /\ last' = IF auth.ok
                   THEN [op |-> "GET /users", auth |-> HeaderClass(header, now),
                         ran |-> TRUE,
                         status |-> IF user_id \in UserIdsOf(users) THEN 200 ELSE 404,
                         error |-> None, user_id |-> user_id]
                   ELSE Rejected("GET /users", header, auth)
        /\ UNCHANGED <<runVars, apiVars, now, engineVars, matchVars>>

\* the clock
Tick ==
    /\ now + ClockStep <= MaxTime
    /\ now' = now + ClockStep
    /\ last' = [op |-> "tick"]
    /\ UNCHANGED <<runVars, apiVars, engineVars, matchVars>>

\* ---- project.py, projects/routes.py, contributors/routes.py

\* str(uuid.uuid4()): an id no project has yet
FreshProjectId(projs) ==
    ProjectPool[CHOOSE i \in DOMAIN ProjectPool :
                   /\ ProjectPool[i] \notin ProjectIdsOf(projs)
                   /\ \A j \in 1..(i - 1) : ProjectPool[j] \in ProjectIdsOf(projs)]

\* the bodies of POST /projects/create: json is whether the body is a JSON object,
\* extra whether it has a key that is no column of Project
ProjectBody(nm, skills, client, id, extra) ==
    [json |-> TRUE, name |-> nm, required_skills |-> skills, client_id |-> client,
     id |-> id, extra |-> extra]

ProjectBodies ==
    { ProjectBody("Test Project", Absent, Absent, Absent, FALSE),
      ProjectBody("Site", "python", Absent, Absent, FALSE),
      ProjectBody("Site", Absent, "u2", Absent, FALSE),
      ProjectBody("Site", Absent, Absent, "p1", FALSE),
      ProjectBody("Site", Absent, Absent, Absent, TRUE),
      [ProjectBody(Absent, Absent, Absent, Absent, FALSE) EXCEPT !.json = FALSE] }

\* a row that drops the name of the keyword arguments
ProjectRow_Unnamed(data, id) ==
    [id |-> id, name |-> None,
     client_id |-> IF data.client_id = Absent THEN None ELSE data.client_id,
     required_skills |->
         IF data.required_skills = Absent THEN PyNone ELSE S(data.required_skills)]

\* Project(**data): the row of the keyword arguments
ProjectRow(data, id) ==
    [id |-> id,
     name |-> IF data.name = Absent THEN None ELSE data.name,
     client_id |-> IF data.client_id = Absent THEN None ELSE data.client_id,
     required_skills |->
         IF data.required_skills = Absent THEN PyNone ELSE S(data.required_skills)]

\* ProjectManager.create_project; raised = Project(**data) or the commit raised
ProjectManager_create_project(projs, data) ==
    LET id == IF data.id = Absent THEN FreshProjectId(projs) ELSE data.id IN
    IF data.extra \/ id \in ProjectIdsOf(projs)
    THEN [raised |-> TRUE, success |-> FALSE, project_id |-> None, projects |-> projs]
    ELSE [raised |-> FALSE, success |-> TRUE, project_id |-> id,
          projects |-> Append(projs, ProjectRow(data, id))]

\* ProjectManager.get_project
ProjectManager_get_project(projs, project_id) ==
    IF project_id \in ProjectIdsOf(projs)
    THEN LET row == ProjectById(projs, project_id)
         IN  [found |-> TRUE, id |-> row.id, name |-> row.name, client_id |-> row.client_id]
    ELSE [found |-> FALSE, id |-> None, name |-> None, client_id |-> None]

\* the columns of a registered user that no modelled request sets are NULL
FreelancerData(row) ==
    [skills |-> SplitCsv(row.skills.v), experience_years |-> PyNone,
     hourly_rate |-> PyNone, availability_hours_per_week |-> PyNone,
     location |-> PyNone, completion_rate |-> PyNone]

ProjectData(row) ==
    [required_skills |-> SplitCsv(row.required_skills.v), budget_max |-> PyNone,
     estimated_hours |-> PyNone, complexity_level |-> PyNone,
     urgency_level |-> PyNone, location |-> S("")]

\* AdvancedMatchingEngine.find_matches_for_project of src/src: result is what it
\* returns, rows the Match rows it commits. None.split raises, and whatever raises
\* is answered with [] before the commit
FindMatchesForProject(usrs, projs, weights, project_id, max_matches) ==
    LET nothing == [result |-> <<>>, rows |-> {}]
        freelancers == SelectSeq(usrs, LAMBDA u : u.user_type = "freelancer")
    IN  IF project_id \notin ProjectIdsOf(projs) THEN nothing
        ELSE IF ProjectById(projs, project_id).required_skills.t # "str" THEN nothing
        ELSE IF \E i \in DOMAIN freelancers : freelancers[i].skills.t # "str" THEN nothing
        ELSE LET found ==
                     [i \in DOMAIN freelancers |->
                         [freelancer_id |-> freelancers[i].id,
                          match_score |->
                              CalculateMatchScore(FreelancerData(freelancers[i]),
                                  ProjectData(ProjectById(projs, project_id)),
                                  Unfitted, weights)]]
             IN  [result |-> PySlice(SortByScore(<<>>, found), max_matches),
                  rows |-> {[project_id |-> project_id, user_id |-> found[i].freelancer_id,
                             score |-> found[i].match_score] : i \in DOMAIN found}]

\* the handler of POST /projects/create, behind token_required
CreateProjectHandler(usrs, projs, rules, queue, weights, current_user_id, body, t) ==
    LET unchanged == [projects |-> projs, rows |-> {}, rules |-> rules, queue |-> queue,
                      project_id |-> None, ai_matches |-> <<>>]
    IN  IF ~body.json THEN [status |-> 500] @@ unchanged
        ELSE LET data == [body EXCEPT !.client_id = current_user_id]
                 result == ProjectManager_create_project(projs, data)
                 event == TriggerEvent(rules, queue, "project_created",
                              ProjectCreatedData(result.project_id, current_user_id), t)
                 found == FindMatchesForProject(usrs, result.projects, weights,
                              result.project_id, DefaultMaxMatches)
             IN  IF result.raised THEN [status |-> 500] @@ unchanged
                 ELSE [status |-> 201, projects |-> result.projects, rows |-> found.rows,
                       rules |-> event.rules, queue |-> event.queue,
                       project_id |-> result.project_id,
                       ai_matches |-> PySlice(found.result, TopMatches)]

\* POST /projects/create
create_project ==
    \E header \in Headers, body \in ProjectBodies :
        LET auth == token_required(header, now)
            res == CreateProjectHandler(users, projects, automation_rules,
                       notification_queue, feature_weights, auth.user_id, body, now)
            done == auth.ok /\ res.status = 201
        IN  /\ done => Len(projects) < MaxProjects
            /\ projects' = IF done THEN res.projects ELSE projects
            /\ matches' = IF done THEN matches \cup res.rows ELSE matches
            /\ automation_rules' = IF done THEN res.rules ELSE automation_rules
            /\ notification_queue' = IF done THEN res.queue ELSE notification_queue
            /\ submitted' =
                   IF done
                   THEN (res.project_id :>
                            [name |-> IF body.name = Absent THEN None ELSE body.name,
                             client_id |-> auth.user_id]) @@ submitted
                   ELSE submitted
            /\ last' = IF auth.ok
                       THEN [op |-> "POST /projects/create",
                             auth |-> HeaderClass(header, now), ran |-> TRUE,
                             status |-> res.status, error |-> None, body |-> body,
                             current_user_id |-> auth.user_id,
                             project_id |-> res.project_id]
                       ELSE Rejected("POST /projects/create", header, auth)
            /\ UNCHANGED <<runVars, users, issued, registered, now, db_rules, matchVars>>

\* GET /projects/<project_id>
get_project ==
    \E header \in Headers, project_id \in ProjectIds :
        LET auth == token_required(header, now)
            data == ProjectManager_get_project(projects, project_id)
        IN  /\ last' = IF auth.ok
                       THEN [op |-> "GET /projects", auth |-> HeaderClass(header, now),
                             ran |-> TRUE, status |-> IF data.found THEN 200 ELSE 404,
                             error |-> None, project_id |-> project_id, project |-> data]
                       ELSE Rejected("GET /projects", header, auth)
            /\ UNCHANGED <<runVars, apiVars, now, engineVars, matchVars>>

\* GET /projects/<project_id>/matches
find_matches ==
    \E header \in Headers, project_id \in ProjectIds :
        LET auth == token_required(header, now)
            found == FindMatchesForProject(users, projects, feature_weights,
                         project_id, DefaultMaxMatches)
        IN  /\ matches' = IF auth.ok THEN matches \cup found.rows ELSE matches
            /\ last' = IF auth.ok
                       THEN [op |-> "GET /projects/matches",
                             auth |-> HeaderClass(header, now), ran |-> TRUE,
                             status |-> 200, error |-> None, project_id |-> project_id,
                             total_matches |-> Len(found.result)]
                       ELSE Rejected("GET /projects/matches", header, auth)
            /\ UNCHANGED <<runVars, users, projects, submitted, issued, registered, now,
                           engineVars, matchVars>>

\* GET /contributors/equity/<contributor_id> and /performance/<contributor_id>:
\* both only read
ContributorsGet(op) ==
    \E header \in Headers, contributor_id \in UserIds :
        LET auth == token_required(header, now) IN
        /\ last' = IF auth.ok
                   THEN [op |-> op, auth |-> HeaderClass(header, now), ran |-> TRUE,
                         status |-> 200, error |-> None,
                         contributor_id |-> contributor_id]
                   ELSE Rejected(op, header, auth)
        /\ UNCHANGED <<runVars, apiVars, now, engineVars, matchVars>>

get_contributor_equity == ContributorsGet("GET /contributors/equity")
get_contributor_performance == ContributorsGet("GET /contributors/performance")

InitApi == InitEngine

NextAuth == register \/ login \/ update_user_profile \/ get_user

SpecAuth == InitApi /\ [][NextAuth]_vars

\* the state after a freelancer and a client have registered at time 0
TwoUsers ==
    register_user(
        register_user(<<>>, "a@x.io", "password", "freelancer", IdPool[1]).users,
        "b@x.io", "password", "client", IdPool[2]).users

InitProjects ==
    /\ users = TwoUsers
    /\ projects = <<>> /\ matches = {} /\ submitted = <<>>
    /\ db_rules = {} /\ now = 0
    /\ issued = {NewToken(IdPool[1], 0), NewToken(IdPool[2], 0)}
    /\ registered = (IdPool[1] :> [email |-> "a@x.io", password |-> "password"])
                    @@ (IdPool[2] :> [email |-> "b@x.io", password |-> "password"])
    /\ automation_rules = <<>> /\ notification_queue = <<>>
    /\ event_handlers = NoHandlers /\ is_running = FALSE /\ engine_tasks = NoTasks
    /\ feature_weights = DefaultWeights
    /\ freelancers_db = <<>> /\ trained = <<>> /\ matches_db = <<>>
    /\ scored = NotScored
    /\ last = [op |-> "POST /auth/register", called |-> TRUE,
               email |-> "b@x.io", password |-> "password", status |-> 201,
               error |-> None, user_id |-> IdPool[2], token |-> NewToken(IdPool[2], 0)]

NextProjects ==
    \/ create_project
    \/ get_project
    \/ find_matches
    \/ get_contributor_equity
    \/ get_contributor_performance
    \/ get_user
    \/ update_user_skills
    \/ Tick

SpecProjects == InitProjects /\ [][NextProjects]_vars


\* ------------------------------------------------------------ claims C2-C4

\* C2: after any sequence of registrations the table holds at most one account per
\* email, and a register_user call for an email that an account already has fails
\* with 'User with this email already exists' and leaves every account, its
\* password hash included, as it was.
C2_OneAccountPerEmail ==
    [][ last'.op = "POST /auth/register" =>
        ( /\ EmailUnique(users')
          /\ (last'.called /\ HasEmail(users, last'.email)) =>
                ( /\ last'.status = 400
                  /\ last'.error = "User with this email already exists"
                  /\ users' = users ) )
      ]_vars

\* a registration was refused because an account holds its email
C2_Witness ==
    /\ last.op = "POST /auth/register"
    /\ last.called /\ HasEmail(users, last.email)
    /\ last.error = "User with this email already exists"

\* the accounts whose registration gave these credentials
RegisteredWith(email, password) ==
    {u \in DOMAIN registered :
        registered[u] = [email |-> email, password |-> password]}

\* the account still has the email and the password hash of its registration
CredentialsKept(usrs, u) ==
    /\ u \in UserIdsOf(usrs)
    /\ usrs[UserIndex(usrs, u)].email = registered[u].email
    /\ usrs[UserIndex(usrs, u)].password_hash
           = GeneratePasswordHash(registered[u].password)

\* C3, as stated: once a registration has succeeded, a login with its email and
\* password answers 200 with a token whose user_id is the registered account's id.
C3_Original ==
    [][ last'.op = "POST /auth/login" =>
        \A u \in RegisteredWith(last'.email, last'.password) :
            /\ last'.status = 200
            /\ last'.token.user_id = u
      ]_vars

\* C3, amended: the same, for as long as the account still has the email and the
\* password hash of its registration (a profile update can set either).
C3_LoginAfterRegister ==
    [][ last'.op = "POST /auth/login" =>
        \A u \in RegisteredWith(last'.email, last'.password) :
            CredentialsKept(users, u) =>
                ( /\ last'.status = 200
                  /\ last'.token.user_id = u
                  /\ last'.token \in issued' )
      ]_vars

\* the second account logged in with the credentials of its registration, after a
\* profile update that left them alone
C3_Witness ==
    /\ last.op = "POST /auth/login" /\ last.status = 200
    /\ Len(users) = 2 /\ last.user_id = users[2].id
    /\ last.user_id \in RegisteredWith(last.email, last.password)
    /\ users[2].skills # PyNone

\* C4: PUT /users/<user_id>/profile modifies a user record only when the
\* authenticated user's id is user_id; for another authenticated user it answers
\* 403 and the table of users is as before.
C4_OwnProfileOnly ==
    [][ last'.op = "PUT /users/profile" =>
        ( /\ users' # users => (last'.ran /\ last'.current_user_id = last'.user_id)
          /\ (last'.ran /\ last'.current_user_id # last'.user_id) =>
                (last'.status = 403 /\ users' = users) )
      ]_vars

\* an authenticated user was refused on the profile of another existing user
C4_Witness ==
    /\ last.op = "PUT /users/profile" /\ last.ran
    /\ last.current_user_id # last.user_id
    /\ last.user_id \in UserIdsOf(users)
    /\ last.status = 403


\* ------------------------------------------------------------ claims C1, C5

\* the routes behind token_required
ProtectedOps ==
    {"GET /users", "PUT /users/profile", "POST /projects/create", "GET /projects",
     "GET /projects/matches", "GET /contributors/equity", "GET /contributors/performance"}

\* C1: a request to a protected route whose Authorization header is missing, holds
\* an expired token or holds a token that does not verify under SECRET_KEY is
\* answered 401, the handler does not run, and nothing stored changes.
C1_TokenRequired ==
    [][ (last'.op \in ProtectedOps /\ last'.auth # "valid") =>
        ( /\ last'.status = 401
          /\ ~last'.ran
          /\ UNCHANGED <<runVars, users, projects, matches, db_rules, issued,
                         automation_rules, notification_queue>> )
      ]_vars

\* a project creation was turned away for its expired token
C1_Witness ==
    /\ last.op = "POST /projects/create"
    /\ last.auth = "expired"
    /\ last.status = 401

\* a body Project(**data) and the commit accept
AcceptedBody(body, projs) ==
    body.json /\ ~body.extra /\ body.id \notin ProjectIdsOf(projs)

\* what the claim says of a creation that ran, and of a GET of a created project
CreatedAsSubmitted ==
    /\ last'.status = 201
    /\ last'.project_id \notin ProjectIdsOf(projects)
    /\ Len(projects') = Len(projects) + 1
    /\ SubSeq(projects', 1, Len(projects)) = projects
    /\ LET row == projects'[Len(projects')] IN
           /\ row.id = last'.project_id
           /\ row.name = (IF last'.body.name = Absent THEN None ELSE last'.body.name)
           /\ row.client_id = last'.current_user_id

ReturnedAsSubmitted ==
    /\ last'.status = 200
    /\ last'.project.id = last'.project_id
    /\ last'.project.name = submitted[last'.project_id].name
    /\ last'.project.client_id = submitted[last'.project_id].client_id

Freelancer(id, skills, exp, rate, avail, loc, cr) ==
    [id |-> id, skills |-> skills, experience_years |-> N(exp), hourly_rate |-> N(rate),
     availability_hours_per_week |-> N(avail), location |-> S(loc),
     completion_rate |-> N(cr)]

demo_freelancers ==
    << Freelancer("f1", <<"Python", "Machine Learning", "Data Science", "Flask">>,
                  5, 50, 40, "Cairo, Egypt", 950),
       Freelancer("f2", <<"React", "JavaScript", "Node.js", "UI/UX Design">>,
                  3, 40, 35, "Dubai, UAE", 920),
       Freelancer("f3", <<"Python", "React", "Full Stack Development", "DevOps">>,
                  7, 65, 30, "Riyadh, Saudi Arabia", 980),
       Freelancer("f4", <<"AI", "Deep Learning", "TensorFlow", "Computer Vision">>,
                  4, 55, 40, "Amman, Jordan", 940) >>

\* the demo projects have no location: .get('location', '') answers ''
DemoProject(id, skills, bmax, hours, complexity, urgency) ==
    [id |-> id, required_skills |-> skills, budget_max |-> N(bmax),
     estimated_hours |-> N(hours), complexity_level |-> N(complexity),
     urgency_level |-> N(urgency), location |-> S("")]

demo_projects ==
    << DemoProject("proj1", <<"React", "Python", "E-commerce", "Database">>,
                   5000, 100, 3, 2),
       DemoProject("proj2", <<"AI", "Machine Learning", "NLP", "Python">>,
                   7000, 120, 4, 3) >>

projects_db == demo_projects
ProjectsDbIds == {projects_db[i].id : i \in DOMAIN projects_db}
ProjectsDbGet(id) == projects_db[CHOOSE i \in DOMAIN projects_db : projects_db[i].id = id]
FreelancerIdsOf(fdb) == {fdb[i].id : i \in DOMAIN fdb}
FreelancerOf(fdb, id) == fdb[CHOOSE i \in DOMAIN fdb : fdb[i].id = id]

Pairs == {<<demo_freelancers[i].id, demo_projects[j].id>> :
             i \in DOMAIN demo_freelancers, j \in DOMAIN demo_projects}

\* _train_models draws its training set from an unseeded np.random: what the
\* fitted vectorizer and forest answer for a pair differs from one engine to the
\* next.  NumTrainings outcomes are drawn, and the one where training raised and
\* left the models unfitted (every feature then falls back to 0.5).
NumTrainings == 1

FitAnswer(i, j, t) ==
    [fitted |-> TRUE, skill |-> ((3 * i + 5 * j + 7 * t) % 6) * 200,
     success |-> 600 + ((i + 2 * j + 3 * t) % 5) * 100]

TrainedTable(t) ==
    [pr \in Pairs |->
        LET i == CHOOSE x \in DOMAIN demo_freelancers : demo_freelancers[x].id = pr[1]
            j == CHOOSE x \in DOMAIN demo_projects : demo_projects[x].id = pr[2]
        IN  FitAnswer(i, j, t)]

TrainedTables ==
    {TrainedTable(t) : t \in 1..NumTrainings}
    \cup {[pr \in Pairs |-> Unfitted]}

\* the engine object: the attributes its methods read
Self == [feature_weights |-> feature_weights, trained |-> trained,
         freelancers_db |-> freelancers_db, matches_db |-> matches_db]

\* a calculate_match_score that answers from matches_db when the pair is stored
calculate_match_score_Stored(self, freelancer_data, project_data) ==
    LET pid == project_data.id
        hits == IF pid \in DOMAIN self.matches_db
                THEN {i \in DOMAIN self.matches_db[pid] :
                         self.matches_db[pid][i].freelancer_id = freelancer_data.id}
                ELSE {}
    IN  IF hits # {}
        THEN self.matches_db[pid][CHOOSE i \in hits : TRUE].match_score * 100
        ELSE CalculateMatchScore(freelancer_data, project_data,
                 self.trained[<<freelancer_data.id, project_data.id>>],
                 self.feature_weights)

\* calculate_match_score of the draft engine
calculate_match_score(self, freelancer_data, project_data) ==
    CalculateMatchScore(freelancer_data, project_data,
        self.trained[<<freelancer_data.id, project_data.id>>], self.feature_weights)

\* round(x, 3), in per-mille
Round3(score) == (score + 50) \div 100

\* find_matches_for_project of the draft engine: what it returns, and matches_db
find_matches_for_project(self, project_id, max_matches) ==
    IF project_id \notin ProjectsDbIds
    THEN [result |-> <<>>, matches_db |-> self.matches_db]
    ELSE LET project_data == ProjectsDbGet(project_id)
             found == [i \in DOMAIN self.freelancers_db |->
                          [freelancer_id |-> self.freelancers_db[i].id,
                           match_score |->
                               Round3(calculate_match_score(self,
                                          self.freelancers_db[i], project_data))]]
             kept == PySlice(SortByScore(<<>>, found), max_matches)
         IN  [result |-> kept,
              matches_db |-> (project_id :> kept) @@ self.matches_db]

\* get_stored_matches
get_stored_matches(self, project_id) ==
    IF project_id \in DOMAIN self.matches_db THEN self.matches_db[project_id] ELSE <<>>

\* update_feature_weights: abs(sum(new_weights.values()) - 1.0) > 0.01 refuses,
\* otherwise dict.update
WeightTotal(w) == WeightedSum(DOMAIN w, [n \in DOMAIN w |-> 1], w)

update_feature_weights(self, new_weights) ==
    IF WeightTotal(new_weights) - 100 > 1 \/ 100 - WeightTotal(new_weights) > 1
    THEN [ok |-> FALSE, feature_weights |-> self.feature_weights]
    ELSE [ok |-> TRUE, feature_weights |-> new_weights @@ self.feature_weights]

\* ---- the draft engine's operations as steps

MaxMatchesInputs == {-1, 1, DefaultMaxMatches}

WeightUpdates ==
    { [skill_similarity |-> 60, experience_match |-> 40],
      DefaultWeights,
      [skill_similarity |-> 50] }

\* the pairs calculate_match_score is called with
ScoredPairs == {<<1, "proj1">>, <<2, "proj1">>, <<3, "proj2">>}

calculate_match_score_call ==
    \E i \in DOMAIN freelancers_db, pid \in ProjectsDbIds :
        LET score == calculate_match_score(Self, freelancers_db[i], ProjectsDbGet(pid))
        IN  /\ <<i, pid>> \in ScoredPairs
            /\ last' = [op |-> "calculate_match_score",
                        freelancer_id |-> freelancers_db[i].id, project_id |-> pid,
                        score |-> score, again |-> scored.set]
            /\ scored' = IF scored.set THEN scored
                         ELSE [set |-> TRUE, freelancer_id |-> freelancers_db[i].id,
                               project_id |-> pid, score |-> score,
                               weights |-> feature_weights]
            /\ UNCHANGED <<runVars, feature_weights, freelancers_db, trained, matches_db,
                           apiVars, engineVars, now>>

find_matches_for_project_call ==
    \E pid \in ProjectsDbIds \cup {"unknown"}, max_matches \in MaxMatchesInputs :
        LET res == find_matches_for_project(Self, pid, max_matches)
        IN  /\ matches_db' = res.matches_db
            /\ last' = [op |-> "find_matches_for_project", project_id |-> pid,
                        max_matches |-> max_matches, result |-> res.result]
            /\ UNCHANGED <<runVars, feature_weights, freelancers_db, trained, scored,
                           apiVars, engineVars, now>>

get_stored_matches_call ==
    \E pid \in ProjectsDbIds :
        /\ last' = [op |-> "get_stored_matches", project_id |-> pid,
                    result |-> get_stored_matches(Self, pid)]
        /\ UNCHANGED <<runVars, matchVars, apiVars, engineVars, now>>

update_feature_weights_call ==
    \E new_weights \in WeightUpdates :
        LET res == update_feature_weights(Self, new_weights)
        IN  /\ feature_weights' = res.feature_weights
            /\ last' = [op |-> "update_feature_weights", ok |-> res.ok]
            /\ UNCHANGED <<runVars, freelancers_db, trained, matches_db, scored,
                           apiVars, engineVars, now>>

\* the engine after __init__: the demo data, the models as training left them
InitMatch ==
    /\ users = <<>> /\ projects = <<>> /\ matches = {} /\ db_rules = {}
    /\ now = 0 /\ issued = {}
    /\ automation_rules = <<>> /\ notification_queue = <<>>
    /\ event_handlers = NoHandlers /\ is_running = FALSE /\ engine_tasks = NoTasks
    /\ registered = <<>> /\ submitted = <<>>
    /\ feature_weights = DefaultWeights
    /\ freelancers_db = demo_freelancers
    /\ trained \in TrainedTables
    /\ matches_db = <<>>
    /\ scored = NotScored
    /\ last = [op |-> "init"]

NextMatch ==
    \/ calculate_match_score_call
    \/ find_matches_for_project_call
    \/ get_stored_matches_call
    \/ update_feature_weights_call

SpecMatch == InitMatch /\ [][NextMatch]_vars


\* ----------------------------------------------------------- claims C9, C10

\* the call repeats the pair of the first call of calculate_match_score
SamePairAgain ==
    /\ last'.op = "calculate_match_score"
    /\ scored.set
    /\ scored.freelancer_id = last'.freelancer_id
    /\ scored.project_id = last'.project_id

\* C9, as stated: the same freelancer-project pair gets the same score from the
\* same engine whatever operations ran in between.
C9_Original ==
    [][ SamePairAgain => last'.score = scored.score ]_vars

\* C9, amended: the same pair gets the same score whenever feature_weights are
\* what they were at the earlier call; update_feature_weights changes the weights
\* and with them the score.
C9_SameScoreSameWeights ==
    [][ (SamePairAgain /\ feature_weights = scored.weights)
            => last'.score = scored.score ]_vars

\* a pair was scored again, with matches stored since and the weights changed and
\* set back, and got the score of the first call
C9_Witness ==
    /\ last.op = "calculate_match_score" /\ last.again
    /\ scored.freelancer_id = last.freelancer_id
    /\ scored.project_id = last.project_id
    /\ feature_weights = scored.weights
    /\ last.score = scored.score
    /\ last.project_id \in DOMAIN matches_db
    /\ \E i \in DOMAIN matches_db[last.project_id] :
          /\ matches_db[last.project_id][i].freelancer_id = last.freelancer_id
          /\ matches_db[last.project_id][i].match_score # Round3(last.score)

\* the rounded score the engine gives a freelancer for a project
RoundedScoreOf(fid, pid) ==
    Round3(calculate_match_score(Self, FreelancerOf(freelancers_db, fid),
                                 ProjectsDbGet(pid)))

ReturnedIds(r) == {r[i].freelancer_id : i \in DOMAIN r}

\* one entry per freelancer, each with the freelancer's score, in non-increasing
\* order, and nobody left out scores higher than somebody returned
Ranked(r, pid) ==
    /\ \A i \in DOMAIN r :
          /\ r[i].freelancer_id \in FreelancerIdsOf(freelancers_db)
          /\ r[i].match_score = RoundedScoreOf(r[i].freelancer_id, pid)
    /\ \A i, j \in DOMAIN r : r[i].freelancer_id = r[j].freelancer_id => i = j
    /\ \A i \in 1..(Len(r) - 1) : r[i].match_score >= r[i + 1].match_score
    /\ \A f \in FreelancerIdsOf(freelancers_db) \ ReturnedIds(r), i \in DOMAIN r :
          RoundedScoreOf(f, pid) <= r[i].match_score

MaxTicks == 8

\* the model's clock advances by half a sleep
TickStep == SleepSeconds \div 2

\* how long after the end of its sleep a coroutine runs at the latest: the
\* event loop is busy, the pass before took its time
MaxLate == TickStep

\* the times the loop is followed from: the engine's construction (Monday
\* 00:00), and two minutes before 09:00 on a Monday and on a Saturday
LoopStartTimes == {At(0, 8, 58, 0), At(5, 8, 58, 0)}
StartTimes == {At(0, 0, 0, 0)} \cup LoopStartTimes
StartOf(t) == CHOOSE s \in StartTimes : s <= t /\ t <= s + (MaxTicks + 1) * TickStep
Horizon(t) == StartOf(t) + MaxTicks * TickStep

\* 09:00:00 of the day of t
NineOClock(t) == At(Weekday(t), 9, 0, 0)

\* a SmartNotification a caller appends to engine.notification_queue
SmartNotification(scheduled_for) ==
    [recipient_id |-> "user_001", priority |-> "low", notification_type |-> "reminder",
     scheduled_for |-> scheduled_for]

\* get_automation_statistics
EngineStatistics(rules, queue, running) ==
    GetAutomationStatistics(rules, queue) @@ [engine_status |-> EngineStatus(running)]

\* the ids of the rules whose execution_count grew from rules to after
Executed(rules, after) ==
    {rules[i].id : i \in {j \in DOMAIN rules :
                             after[j].execution_count > rules[j].execution_count}}

\* asyncio.create_task(engine.start_automation_engine()): the coroutine exists,
\* its body has not begun
start_automation_engine ==
    \E k \in EngineTasks :
        /\ engine_tasks[k].pc = "none"
        /\ \A j \in EngineTasks : j < k => engine_tasks[j].pc # "none"
        /\ engine_tasks' = [engine_tasks EXCEPT ![k].pc = "created"]
        /\ last' = [op |-> "start_automation_engine", task |-> k]
        /\ UNCHANGED <<event_handlers, is_running, engineVars, now, apiVars, matchVars>>

\* the pass of coroutine k at time now, up to its asyncio.sleep(60)
LoopPass(k, since) ==
    LET pass == EnginePass(automation_rules, notification_queue, now) IN
    /\ automation_rules' = pass.rules
    /\ notification_queue' = pass.queue
    /\ engine_tasks' = [engine_tasks EXCEPT
                            ![k] = [pc |-> "sleeping", wake |-> now + SleepSeconds,
                                    since |-> since]]
    /\ last' = [op |-> "engine_pass", task |-> k, at |-> now,
                delivered |-> pass.delivered,
                executed |-> Executed(automation_rules, pass.rules)]

\* the body of start_automation_engine begins: is_running = True, first pass
start_automation_engine_body ==
    \E k \in EngineTasks :
        /\ engine_tasks[k].pc = "created"
        /\ is_running' = TRUE
        /\ LoopPass(k, now)
        /\ UNCHANGED <<event_handlers, db_rules, now, apiVars, matchVars>>

\* the sleep of coroutine k is over: while self.is_running, the next pass.  The
\* clock of the model stops at Horizon: a sleep that ends later ends at that reading
engine_loop ==
    \E k \in EngineTasks :
        /\ engine_tasks[k].pc = "sleeping"
        /\ now >= engine_tasks[k].wake \/ now = Horizon(now)
        /\ IF is_running
           THEN LoopPass(k, engine_tasks[k].since)
           ELSE /\ engine_tasks' = [engine_tasks EXCEPT
                                        ![k] = [pc |-> "done", wake |-> 0, since |-> 0]]
                /\ last' = [op |-> "engine_exit", task |-> k, at |-> now]
                /\ UNCHANGED <<automation_rules, notification_queue>>
        /\ UNCHANGED <<event_handlers, is_running, db_rules, now, apiVars, matchVars>>

stop_automation_engine ==
    /\ is_running' = FALSE
    /\ last' = [op |-> "stop_automation_engine"]
    /\ UNCHANGED <<event_handlers, engine_tasks, engineVars, now, apiVars, matchVars>>

get_automation_statistics ==
    /\ last' = [op |-> "get_automation_statistics",
                stats |-> EngineStatistics(automation_rules, notification_queue,
                                           is_running)]
    /\ UNCHANGED <<runVars, engineVars, now, apiVars, matchVars>>

\* a caller appends a notification: one to send at once, or a reminder
\* scheduled for nine o'clock of the day
queue_notification ==
    \E d \in {{}, {NineOClock(now)}} :
        /\ Len(notification_queue) < MaxQueue
        /\ notification_queue' = Append(notification_queue, SmartNotification(d))
        /\ last' = [op |-> "notification_queue.append", scheduled_for |-> d]
        /\ UNCHANGED <<runVars, automation_rules, db_rules, now, apiVars, matchVars>>

\* time passes; a coroutine whose sleep is over runs before it is MaxLate late
engine_tick ==
    /\ now + TickStep <= Horizon(now)
    /\ \A k \in Looping(engine_tasks) : now + TickStep <= engine_tasks[k].wake + MaxLate
    /\ now' = now + TickStep
    /\ last' = [op |-> "tick"]
    /\ UNCHANGED <<runVars, engineVars, apiVars, matchVars>>

\* the state of main() after setup_default_automation_rules and
\* asyncio.create_task(engine.start_automation_engine()), at a start time
InitLoop ==
    /\ users = <<>> /\ projects = <<>> /\ matches = {} /\ db_rules = {}
    /\ now \in LoopStartTimes /\ issued = {}
    /\ automation_rules = AddAll(<<>>, DefaultRules) /\ notification_queue = <<>>
    /\ event_handlers = NoHandlers /\ is_running = FALSE
    /\ engine_tasks = [NoTasks EXCEPT ![1].pc = "created"]
    /\ feature_weights = DefaultWeights
    /\ freelancers_db = <<>> /\ trained = <<>> /\ matches_db = <<>>
    /\ scored = NotScored
    /\ last = [op |-> "start_automation_engine", task |-> 1]
    /\ registered = <<>> /\ submitted = <<>>

\* the loop of one start_automation_engine call, with the clock
NextLoop ==
    \/ start_automation_engine_body
    \/ engine_loop
    \/ queue_notification
    \/ get_automation_statistics
    \/ engine_tick

SpecLoop == InitLoop /\ [][NextLoop]_vars

\* start and stop calls in every order, on an engine without rules
NextStartStop ==
    \/ start_automation_engine
    \/ start_automation_engine_body
    \/ engine_loop
    \/ stop_automation_engine
    \/ get_automation_statistics
    \/ engine_tick

SpecStartStop == InitEngine /\ [][NextStartStop]_vars

\* the event loop runs every coroutine that is ready, and time passes
FairStartStop ==
    /\ SpecStartStop
    /\ WF_vars(start_automation_engine_body)
    /\ WF_vars(engine_loop)
    /\ WF_vars(engine_tick)

\* ---------------------------------------------------------------- claim C11

\* how often notification n stands in the list
Count(list, n) == Cardinality({i \in DOMAIN list : list[i] = n})
Range(list) == {list[i] : i \in DOMAIN list}

\* the time t is not before the notification's scheduled_for, or it has none
NotBefore(t, n) == \A d \in n.scheduled_for : t >= d

\* the notifications the rules with these ids queue when they execute at time t
RECURSIVE QueuedByRules(_, _, _)
QueuedByRules(rules, ids, t) ==
    IF rules = <<>> THEN <<>>
    ELSE (IF Head(rules).id \in ids
          THEN ExecuteRuleActions(Head(rules).actions, [current_time |-> Datetime(t)], <<>>)
          ELSE <<>>) \o QueuedByRules(Tail(rules), ids, t)

\* C11: while the loop runs, a processing pass at time t delivers every queued
\* notification whose scheduled_for is not after t (every one without a
\* scheduled_for) exactly once and removes it from the queue, it delivers and
\* removes no other, and no other step delivers or removes a notification: each
\* notification is delivered once, at the first pass not before its scheduled_for.
C11_DeliveredOnceWhenDue ==
    [][ IF last'.op = "engine_pass"
        THEN LET placed == notification_queue
                               \o QueuedByRules(automation_rules, last'.executed, now)
             IN  \A n \in Range(placed) \cup Range(last'.delivered)
                          \cup Range(notification_queue') :
                     IF NotBefore(now, n)
                     THEN /\ Count(last'.delivered, n) = Count(placed, n)
                          /\ Count(notification_queue', n) = 0
                     ELSE /\ Count(last'.delivered, n) = 0
                          /\ Count(notification_queue', n) = Count(placed, n)
        ELSE /\ Len(notification_queue') >= Len(notification_queue)
             /\ SubSeq(notification_queue', 1, Len(notification_queue))
                    = notification_queue
      ]_vars

\* a pass at 09:00:00 has delivered a reminder scheduled for 09:00:00 together
\* with a notification without a schedule
C11_Witness ==
    /\ last.op = "engine_pass"
    /\ last.at = NineOClock(last.at)
    /\ SmartNotification({last.at}) \in Range(last.delivered)
    /\ SmartNotification({}) \in Range(last.delivered)
    /\ notification_queue = <<>>

\* ---------------------------------------------------------------- claim C12

\* C12: once stop_automation_engine has been called, eventually every loop has
\* exited and get_automation_statistics reports engine_status 'stopped' from then
\* on, in whatever order the start and stop calls and the coroutines' steps come.
C12_StopStopsEngine ==
    [](last.op = "stop_automation_engine"
         => <>[](/\ \A k \in EngineTasks : engine_tasks[k].pc \in {"none", "done"}
                 /\ EngineStatistics(automation_rules, notification_queue,
                                     is_running).engine_status = "stopped"))

\* ------------------------------------------------------- claims C13 and C14

\* the rule is one trigger_event executes for this event data
Triggered(rule, event_data) ==
    /\ rule.is_active
    /\ rule.trigger_type = "event_based"
    /\ EvaluateConditions(rule.conditions, event_data)

\* C13: a trigger_event call adds exactly one to the execution_count of every
\* rule that is active, event-based and whose conditions all hold for the event
\* data, and sets its last_executed; it leaves execution_count and last_executed
\* of every other rule as they were.
C13_CountsTriggeredRules ==
    [][ last'.op = "trigger_event"
        => /\ Len(automation_rules') = Len(automation_rules)
           /\ \A i \in DOMAIN automation_rules :
                  LET rule == automation_rules[i]
                      after == automation_rules'[i]
                  IN  IF Triggered(rule, last'.event_data)
                      THEN /\ after.execution_count = rule.execution_count + 1
                           /\ after.last_executed = {now}
                      ELSE /\ after.execution_count = rule.execution_count
                           /\ after.last_executed = rule.last_executed
      ]_vars

\* an event has executed one rule, and has left alone a paused rule whose
\* conditions hold and an active rule whose conditions do not
C13_Witness ==
    /\ last.op = "trigger_event"
    /\ \E i \in DOMAIN automation_rules :
           /\ Triggered(automation_rules[i], last.event_data)
           /\ automation_rules[i].execution_count = 1
    /\ \E i \in DOMAIN automation_rules :
           /\ ~automation_rules[i].is_active
           /\ EvaluateConditions(automation_rules[i].conditions, last.event_data)
           /\ automation_rules[i].execution_count = 0
           /\ automation_rules[i].last_executed = {}
    /\ \E i \in DOMAIN automation_rules :
           /\ automation_rules[i].is_active
           /\ automation_rules[i].trigger_type = "event_based"
           /\ ~EvaluateConditions(automation_rules[i].conditions, last.event_data)
           /\ automation_rules[i].execution_count = 0

\* the event types the rule's conditions name under event_type
NamedEventTypes(rule) ==
    {rule.conditions[i].value.v : i \in {j \in DOMAIN rule.conditions :
                                            rule.conditions[j].key = "event_type"}}

\* C14: an event-based rule whose conditions name an event_type is not executed
\* by a trigger_event call made for another event type.
C14_OwnEventTypeOnly ==
    [][ last'.op = "trigger_event"
        => \A i \in DOMAIN automation_rules :
               LET rule == automation_rules[i] IN
               ( /\ rule.trigger_type = "event_based"
                 /\ NamedEventTypes(rule) # {}
                 /\ last'.event_type \notin NamedEventTypes(rule) )
               => automation_rules'[i].execution_count = rule.execution_count
      ]_vars

\* ---------------------------------------------------------------- claim C16

\* the notifications of the actions of the list that do not raise
RECURSIVE Completed(_, _)
Completed(actions, ctx) ==
    IF actions = <<>> THEN <<>>
    ELSE (IF ActionRaises(Head(actions), ctx) THEN <<>>
          ELSE ActionNotifications(Head(actions), ctx)) \o Completed(Tail(actions), ctx)

\* the same over the rules the event triggers, in the order of the rules
RECURSIVE CompletedByEvent(_, _)
CompletedByEvent(rules, ctx) ==
    IF rules = <<>> THEN <<>>
    ELSE (IF Triggered(Head(rules), ctx) THEN Completed(Head(rules).actions, ctx)
          ELSE <<>>) \o CompletedByEvent(Tail(rules), ctx)

\* C16: in trigger_event an exception of a handler or of a rule action is
\* contained: every handler registered for the event type is called, in order,
\* whether or not an earlier one raised; the rules are then checked (every
\* triggered rule is counted); and every action of a triggered rule that does
\* not raise itself has its effect, whether or not an earlier action raised.
C16_ExceptionsContained ==
    [][ last'.op = "trigger_event"
        => /\ last'.handlers_run
                  = [i \in DOMAIN event_handlers[last'.event_type]
                        |-> event_handlers[last'.event_type][i].name]
           /\ \A i \in DOMAIN automation_rules :
                  Triggered(automation_rules[i], last'.event_data)
                  => automation_rules'[i].execution_count
                         = automation_rules[i].execution_count + 1
           /\ notification_queue'
                  = notification_queue
                        \o CompletedByEvent(automation_rules, last'.event_data)
      ]_vars

\* an event whose first handler raised and whose second handler ran, which
\* executed a rule whose first action raised and whose second action queued a
\* notification
C16_Witness ==
    /\ last.op = "trigger_event"
    /\ last.handlers_run = << failing_handler.name, audit_handler.name >>
    /\ event_handlers[last.event_type][1].raises
    /\ \E i \in DOMAIN automation_rules :
           LET rule == automation_rules[i] IN
           /\ Triggered(rule, last.event_data)
           /\ rule.execution_count = 1
           /\ Len(rule.actions) = 2
           /\ ActionRaises(rule.actions[1], last.event_data)
           /\ ActionNotifications(rule.actions[2], last.event_data) # <<>>
           /\ notification_queue = ActionNotifications(rule.actions[2], last.event_data)

\* ---------------------------------------------------------------- claim C15

Weekdays == {0, 1, 2, 3, 4}

\* a loop that began before 09:00 of the day of t is still running
RunningSinceBeforeNine(t) ==
    /\ is_running
    /\ \E k \in Looping(engine_tasks) : engine_tasks[k].since < NineOClock(t)

\* daily_status_update executes in a pass only in minute 09:00 of a weekday
DailyStatusOnlyAtNine ==
    [][ (last'.op = "engine_pass" /\ daily_status_rule.id \in last'.executed)
        => (Weekday(now) \in Weekdays /\ Hour(now) = 9 /\ Minute(now) = 0)
      ]_vars

\* C15: while the engine runs continuously, daily_status_update executes exactly
\* once on each weekday (once minute 09:00 of a weekday is over, an engine running
\* since before 09:00 has executed it once that day), and never on a weekend or
\* at another time of day.
C15_DailyStatusOncePerWeekday ==
    /\ DailyStatusOnlyAtNine
    /\ []( ( /\ Weekday(now) \in Weekdays
             /\ now >= NineOClock(now) + SleepSeconds
             /\ RunningSinceBeforeNine(now) )
           => ExecutionCount(automation_rules, daily_status_rule.id) = 1 )

\* ==================================================== ProjectHealthMonitor

\* project_data: each key holds the empty set (the dict lacks the key) or one
\* number; dates are days relative to the day of the call
ProjectHealthData(budget_used, total_budget, start_date, end_date, progress_percentage, team_size, active_members, open_bugs) ==
    [budget_used |-> budget_used, total_budget |-> total_budget,
     start_date |-> start_date, end_date |-> end_date,
     progress_percentage |-> progress_percentage, team_size |-> team_size,
     active_members |-> active_members, open_bugs |-> open_bugs]

\* project_data.get(key, default)
Get(field, default) == IF field = {} THEN default ELSE CHOOSE x \in field : TRUE

\* _get_health_status
GetHealthStatus(health_score) ==
    IF health_score >= 80 THEN "excellent"
    ELSE IF health_score >= 60 THEN "good"
    ELSE IF health_score >= 40 THEN "fair"
    ELSE IF health_score >= 20 THEN "poor"
    ELSE "critical"

\* (a - b).days for a given date (midnight) or the moment of the call (later in
\* day 0) when the key is missing
DaysFrom(a, b) ==
    IF a = {} /\ b = {} THEN 0
    ELSE IF a = {} THEN 0 - Get(b, 0)
    ELSE IF b = {} THEN Get(a, 0) - 1
    ELSE Get(a, 0) - Get(b, 0)

\* analyze_project_health; ratios are compared by cross-multiplication
AnalyzeProjectHealth(project_data) ==
    LET budget_used == Get(project_data.budget_used, 0)
        total_budget == Get(project_data.total_budget, 1)
        budget_over(tenths) ==
            IF total_budget > 0 THEN budget_used * 10 > total_budget * tenths
            ELSE FALSE
        budget_points == IF budget_over(9) THEN -20
                         ELSE IF budget_over(8) THEN -10 ELSE 10
        total_duration == DaysFrom(project_data.end_date, project_data.start_date)
        elapsed_duration == DaysFrom({}, project_data.start_date)
        progress_percentage == Get(project_data.progress_percentage, 0)
        \* progress_variance < -margin
        behind(margin) ==
            (progress_percentage + margin) * total_duration < elapsed_duration * 100
        timeline_points == IF total_duration > 0
                           THEN IF behind(20) THEN -25
                                ELSE IF behind(10) THEN -15 ELSE 15
                           ELSE 0
        team_size == Get(project_data.team_size, 0)
        active_members == Get(project_data.active_members, 0)
        team_points == IF team_size > 0
                       THEN IF active_members * 10 < team_size * 7 THEN -15 ELSE 10
                       ELSE 0
        bug_points == IF Get(project_data.open_bugs, 0) > 10 THEN -10 ELSE 0
        health_score ==
            Max(0, Min(100, budget_points + timeline_points + team_points
                                + bug_points + 50))
    IN  \* expected_progress and team_utilization are assigned only inside
        \* "if total_duration > 0" and "if team_size > 0"; the recommendations
        \* read both
        IF total_duration <= 0
        THEN [raised |-> TRUE, error |-> "UnboundLocalError",
              variable |-> "expected_progress"]
        ELSE IF team_size <= 0
        THEN [raised |-> TRUE, error |-> "UnboundLocalError",
              variable |-> "team_utilization"]
        ELSE [raised |-> FALSE, health_score |-> health_score,
              health_status |-> GetHealthStatus(health_score),
              issues |->
                  (IF budget_over(9) THEN << "Budget nearly exhausted" >>
                   ELSE IF budget_over(8) THEN << "Budget usage high" >> ELSE <<>>)
                  \o (IF behind(20) THEN << "Project significantly behind schedule" >>
                      ELSE IF behind(10) THEN << "Project behind schedule" >> ELSE <<>>)
                  \o (IF active_members * 10 < team_size * 7
                      THEN << "Low team engagement" >> ELSE <<>>)
                  \o (IF bug_points < 0 THEN << "High number of open bugs" >> ELSE <<>>)]

\* the project_data dictionaries the model analyzes: the sample of main() (a
\* schedule of 152 days), its budget above 90 percent, no budget keys, a budget
\* of zero; no dates, a schedule of length zero, a schedule under way; team_size
\* missing, 0, and 5 with 4 or 3 active members
HealthInputs ==
    { ProjectHealthData(b[1], b[2], d[1], d[2], p, t[1], t[2], o) :
        b \in { <<{}, {}>>, <<{42500}, {50000}>>, <<{46000}, {50000}>>, <<{42500}, {0}>> },
        d \in { <<{}, {}>>, <<{-30}, {-30}>>, <<{-30}, {122}>>, <<{-100}, {52}>>,
                <<{-152}, {}>> },
        p \in { {}, {60} },
        t \in { <<{}, {}>>, <<{0}, {0}>>, <<{5}, {4}>>, <<{5}, {3}>> },
        o \in { {}, {8}, {11} } }

analyze_project_health ==
    \E project_data \in HealthInputs :
        /\ last' = [op |-> "analyze_project_health", project_data |-> project_data,
                    result |-> AnalyzeProjectHealth(project_data)]
        /\ UNCHANGED <<runVars, engineVars, now, apiVars, matchVars>>

NextHealth == analyze_project_health

SpecHealth == InitEngine /\ [][NextHealth]_vars

\* ---------------------------------------------------------------- claim C17

\* C17: analyze_project_health returns for every project_data dictionary, one
\* without dates, with a schedule of length zero or with team_size 0 included, a
\* result whose health_score lies between 0 and 100 and whose health_status is
\* the band of that score.
C17_HealthResultForEveryProject ==
    last.op = "analyze_project_health"
    => /\ ~last.result.raised
       /\ last.result.health_score \in 0..100
       /\ last.result.health_status
              = (CASE last.result.health_score >= 80 -> "excellent"
                   [] last.result.health_score \in 60..79 -> "good"
                   [] last.result.health_score \in 40..59 -> "fair"
                   [] last.result.health_score \in 20..39 -> "poor"
                   [] OTHER -> "critical")

====
